---- MODULE Spec2Model ----
(***************************************************************************)
(* Model of the error-annotation library (package errors).                 *)
(*                                                                         *)
(* The state is the heap of error values built so far, the process-wide    *)
(* render configuration, and the record of the last API call.  An error    *)
(* value is a heap index, Nil is the nil error.  The model follows one     *)
(* error value as it is annotated on its way up the call stack, so the     *)
(* cause of heap node i (when it has one) is node i-1.                     *)
(*                                                                         *)
(* ret records the last call: its name (op), the error passed (err) and    *)
(* what it returned: val for an error value, lines for Lines, text for a   *)
(* formatted node, details and found for Details.                          *)
(*                                                                         *)
(* setting is the SetOptions call in flight, for the specification in      *)
(* which that call runs option by option next to the renders of another    *)
(* goroutine (SpecConcurrent); where SetOptions is one step it stays Idle. *)
(* In SpecAlias the client also writes to the slices it shares with a      *)
(* Details node.                                                           *)
(*                                                                         *)
(* Text is a sequence of tokens; each token is an atomic piece of text (a  *)
(* message word, a separator, a function name, a file:line location).      *)
(***************************************************************************)
EXTENDS Integers, Sequences, FiniteSets, TLC

VARIABLES heap, globalOptions, ret, setting

vars == <<heap, globalOptions, ret, setting>>

\* Longest chain of error values built.
MaxNodes == 3

\* The nil error.
Nil == 0

----------------------------------------------------------------------------
\* Render configuration (options.go)

DefaultOptions == [FuncSep |-> "\t", StackSep |-> "\n", MsgSep |-> " : "]

WithFuncSep(sep) == [field |-> "FuncSep", sep |-> sep]

WithStackSep(sep) == [field |-> "StackSep", sep |-> sep]

WithMsgSep(sep) == [field |-> "MsgSep", sep |-> sep]

\* Applying one Option to a Config.
ApplyOption(c, option) == [c EXCEPT ![option.field] = option.sep]

\* The loop of SetOptions: the options are applied in the order given.
RECURSIVE ApplyOptions(_, _)
ApplyOptions(c, options) ==
    IF options = <<>> THEN c
    ELSE ApplyOptions(ApplyOption(c, Head(options)), Tail(options))

\* The options a client passes to SetOptions.
OptionInputs ==
    { WithFuncSep("\t"), WithFuncSep(" "),
      WithStackSep("\n"), WithStackSep(" | "),
      WithMsgSep(" : "), WithMsgSep("\n") }

\* No SetOptions call in flight.
Idle == [active |-> FALSE, start |-> DefaultOptions, options |-> <<>>, applied |-> 0]

\* SetOptions applying its options last to first (C13 fails with it).
SetOptions_Iteration_Reversed(c, options, i) ==
    ApplyOption(c, options[Len(options) - i])

\* Iteration i (from 0) of the loop of SetOptions on the configuration c.
SetOptions_Iteration(c, options, i) == ApplyOption(c, options[i + 1])

OptionLists ==
    {<<>>} \cup {<<o>> : o \in OptionInputs}
           \cup { <<WithFuncSep(" "), WithStackSep(" | ")>>,
                  <<WithMsgSep("\n"), WithMsgSep(" : ")>> }

----------------------------------------------------------------------------
\* Stack capture and stack rendering

\* The call site of the API call that allocates heap node pc, followed by
\* the frame of its caller.
callers(pc) ==
    << [fn |-> "fn" \o ToString(pc), loc |-> "file:" \o ToString(pc)],
       [fn |-> "main", loc |-> "main:0"] >>

\* One frame under %+v: functionName, FuncSep, file:line.
Frame_Format(f) == <<f.fn, globalOptions.FuncSep, f.loc>>

\* A stack under %+v: one frame per line.
RECURSIVE stack_Format(_)
stack_Format(st) ==
    IF st = <<>> THEN <<>>
    ELSE IF Len(st) = 1 THEN Frame_Format(st[1])
    ELSE Frame_Format(st[1]) \o <<"\n">> \o stack_Format(Tail(st))

----------------------------------------------------------------------------
\* Host formatting helpers

\* fmt.Sprintf(format, args...) for the verb %s: each "%s" token is replaced
\* by the next argument.
RECURSIVE Sprintf(_, _)
Sprintf(format, args) ==
    IF format = <<>> THEN <<>>
    ELSE IF Head(format) = "%s" /\ args # <<>>
         THEN <<Head(args)>> \o Sprintf(Tail(format), Tail(args))
         ELSE <<Head(format)>> \o Sprintf(Tail(format), args)

\* One token inside a Go double-quoted string literal.
EscapeTok(t) ==
    IF t = "\"" THEN "\\\""
    ELSE IF t = "\n" THEN "\\n"
    ELSE IF t = "\t" THEN "\\t"
    ELSE t

\* fmt's %q of a string: the text in double quotes, escaped.
Quote(s) == <<"\"">> \o [k \in 1..Len(s) |-> EscapeTok(s[k])] \o <<"\"">>

----------------------------------------------------------------------------
\* The four node variants and opaque external errors

NoStack == <<>>

NoDetails == <<>>

IsNode(e) == e # Nil /\ heap[e].kind # "external"

\* The result of a constructor: the heap after it and the value returned.
Alloc(node) == [heap |-> Append(heap, node), val |-> Len(heap) + 1]

NilResult == [heap |-> heap, val |-> Nil]

errorsApi_New(message) ==
    Alloc([kind |-> "fundamental", msg |-> message, cause |-> Nil,
           stack |-> callers(Len(heap) + 1), details |-> NoDetails])

errorsApi_Errorf(format, args) ==
    Alloc([kind |-> "fundamental", msg |-> Sprintf(format, args), cause |-> Nil,
           stack |-> callers(Len(heap) + 1), details |-> NoDetails])

errorsApi_WithStack(err) ==
    IF err = Nil THEN NilResult
    ELSE Alloc([kind |-> "withStack", msg |-> <<>>, cause |-> err,
                stack |-> callers(Len(heap) + 1), details |-> NoDetails])

errorsApi_Wrap(err, message) ==
    IF err = Nil THEN NilResult
    ELSE Alloc([kind |-> "withStack", msg |-> message, cause |-> err,
                stack |-> callers(Len(heap) + 1), details |-> NoDetails])

errorsApi_Wrapf(err, format, args) ==
    IF err = Nil THEN NilResult
    ELSE Alloc([kind |-> "withStack", msg |-> Sprintf(format, args), cause |-> err,
                stack |-> callers(Len(heap) + 1), details |-> NoDetails])

errorsApi_WithMessage(err, message) ==
    IF err = Nil THEN NilResult
    ELSE Alloc([kind |-> "withMessage", msg |-> message, cause |-> err,
                stack |-> NoStack, details |-> NoDetails])

errorsApi_WithMessagef(err, format, args) ==
    IF err = Nil THEN NilResult
    ELSE Alloc([kind |-> "withMessage", msg |-> Sprintf(format, args), cause |-> err,
                stack |-> NoStack, details |-> NoDetails])

\* WithDetails without its nil check (C1 fails with it).
errorsApi_WithDetails_NoNilCheck(err, details) ==
    Alloc([kind |-> "withDetails", msg |-> <<>>, cause |-> err,
           stack |-> NoStack, details |-> details])

errorsApi_WithDetails(err, details) ==
    IF err = Nil THEN NilResult
    ELSE Alloc([kind |-> "withDetails", msg |-> <<>>, cause |-> err,
                stack |-> NoStack, details |-> details])

\* An error value of another package (io.EOF, fmt.Errorf("foo"), *codeError):
\* it has a message text and none of the library's capabilities.
NewCodeError(msg) ==
    Alloc([kind |-> "external", msg |-> msg, cause |-> Nil,
           stack |-> NoStack, details |-> NoDetails])

\* Details searching the chain for a Details node (C10 fails with it).
RECURSIVE errorsApi_Details_Search(_)
errorsApi_Details_Search(err) ==
    IF err = Nil THEN [details |-> NoDetails, found |-> FALSE]
    ELSE IF heap[err].kind = "withDetails"
         THEN [details |-> heap[err].details, found |-> TRUE]
    ELSE errorsApi_Details_Search(heap[err].cause)

errorsApi_Details(err) ==
    IF err # Nil /\ heap[err].kind = "withDetails"
    THEN [details |-> heap[err].details, found |-> TRUE]
    ELSE [details |-> NoDetails, found |-> FALSE]

----------------------------------------------------------------------------
\* Cause accessor, generic unwrap, root cause

withMessage_Cause(w) == w.cause

withMessage_Unwrap(w) == w.cause

withDetails_Cause(w) == w.cause

\* A Details node that does not hand out its cause to the generic unwrap
\* (C3 fails with it).
withDetails_Unwrap_None(w) == Nil

withDetails_Unwrap(w) == w.cause

\* err.(causer): withStack embeds withMessage, fundamental has no Cause.
IsCauser(err) == heap[err].kind \in {"withMessage", "withStack", "withDetails"}

\* The Cause method of a value that has one.
CauseOf(err) ==
    IF heap[err].kind = "withDetails" THEN withDetails_Cause(heap[err])
    ELSE withMessage_Cause(heap[err])

\* The generic unwrap: the value's Unwrap method when it has one, else nil.
Unwrap(err) ==
    IF err = Nil THEN Nil
    ELSE IF heap[err].kind = "withDetails" THEN withDetails_Unwrap(heap[err])
    ELSE IF heap[err].kind \in {"withMessage", "withStack"}
         THEN withMessage_Unwrap(heap[err])
    ELSE Nil

\* Cause following the cause accessor once instead of to the end (C2 fails
\* with it).
Cause_OneStep(err) ==
    IF err = Nil THEN err
    ELSE IF ~IsCauser(err) THEN err
    ELSE CauseOf(err)

RECURSIVE Cause(_)
Cause(err) ==
    IF err = Nil THEN err
    ELSE IF ~IsCauser(err) THEN err
    ELSE Cause(CauseOf(err))

\* The values the loop of Cause looks at, in order; the last is its result.
RECURSIVE CauseVisits(_)
CauseVisits(err) ==
    IF err = Nil THEN <<>>
    ELSE IF ~IsCauser(err) THEN <<err>>
    ELSE <<err>> \o CauseVisits(CauseOf(err))

----------------------------------------------------------------------------
\* Short text

RECURSIVE Error(_)

fundamental_Error(f) == f.msg

withMessage_Error(w) ==
    IF w.cause = Nil THEN w.msg
    ELSE IF w.msg = <<>> THEN Error(w.cause)
    ELSE w.msg \o <<": ">> \o Error(w.cause)

withDetails_Error(w) == Error(w.cause)

codeError_Error(e) == e.msg

Error(err) ==
    CASE heap[err].kind = "fundamental" -> fundamental_Error(heap[err])
      [] heap[err].kind = "withStack"   -> withMessage_Error(heap[err])
      [] heap[err].kind = "withMessage" -> withMessage_Error(heap[err])
      [] heap[err].kind = "withDetails" -> withDetails_Error(heap[err])
      [] OTHER                          -> codeError_Error(heap[err])

----------------------------------------------------------------------------
\* Line form

fundamental_ErrorLine(f, stack) ==
    (IF f.msg # <<>> THEN f.msg ELSE <<>>)
    \o (IF f.msg # <<>> /\ stack THEN <<globalOptions.MsgSep>> ELSE <<>>)
    \o (IF stack THEN stack_Format(f.stack) ELSE <<>>)

\* The line form of a StackMessage node with the stack appended whatever the
\* flag (C6 fails with it).
withStack_ErrorLine_AlwaysStack(w, stack) ==
    (IF w.msg # <<>> THEN w.msg \o <<globalOptions.MsgSep>> ELSE <<>>)
    \o stack_Format(w.stack)

withStack_ErrorLine(w, stack) ==
    IF ~stack THEN w.msg
    ELSE (IF w.msg # <<>> THEN w.msg \o <<globalOptions.MsgSep>> ELSE <<>>)
         \o stack_Format(w.stack)

withMessage_ErrorLine(w, stack) == w.msg

withDetails_ErrorLine(w, stack) == <<>>

\* err.(Liner): the four variants have ErrorLine, other values do not.
IsLiner(err) == heap[err].kind # "external"

ErrorLine(err, stack) ==
    CASE heap[err].kind = "fundamental" -> fundamental_ErrorLine(heap[err], stack)
      [] heap[err].kind = "withStack"   -> withStack_ErrorLine(heap[err], stack)
      [] heap[err].kind = "withMessage" -> withMessage_ErrorLine(heap[err], stack)
      [] OTHER                          -> withDetails_ErrorLine(heap[err], stack)

\* The values the loop of Lines visits, in order.
RECURSIVE LinesVisits(_)
LinesVisits(err) ==
    IF err = Nil THEN <<>>
    ELSE <<err>> \o LinesVisits(Unwrap(err))

\* The line one value contributes in the loop of Lines.
LineOf(err, stack) ==
    IF IsLiner(err) THEN ErrorLine(err, stack) ELSE Error(err)

\* The loop of Lines without its test for an empty line (C5 fails with it).
AppendLine_NoSkip(line) == <<line>>

\* The entries one value appends in the loop of Lines.
AppendLine(line) == IF Len(line) > 0 THEN <<line>> ELSE <<>>

RECURSIVE Lines(_, _)
Lines(err, stack) ==
    IF err = Nil THEN <<>>
    ELSE AppendLine(LineOf(err, stack)) \o Lines(Unwrap(err), stack)

----------------------------------------------------------------------------
\* Formatting under a verb and the '+' flag

RECURSIVE Format(_, _, _)

\* fmt.Fprintf(s, "%+v", cause): the cause's own Format when it is one of the
\* library's nodes, the message text of any other error value.
FprintfPlusV(cause) ==
    IF IsNode(cause) THEN Format(cause, "v", TRUE) ELSE Error(cause)

\* fundamental.Format with the message separator fixed when the node was
\* built (C11 fails with it).
fundamental_Format_BuildTimeSep(f, verb, plus) ==
    IF verb = "v" /\ plus
    THEN (IF f.msg # <<>> THEN f.msg \o <<DefaultOptions.MsgSep>> ELSE <<>>)
         \o stack_Format(f.stack)
    ELSE IF verb \in {"v", "s"} THEN f.msg
    ELSE IF verb = "q" THEN Quote(f.msg)
    ELSE <<>>

fundamental_Format(f, verb, plus) ==
    IF verb = "v" /\ plus
    THEN (IF f.msg # <<>> THEN f.msg \o <<globalOptions.MsgSep>> ELSE <<>>)
         \o stack_Format(f.stack)
    ELSE IF verb \in {"v", "s"} THEN f.msg
    ELSE IF verb = "q" THEN Quote(f.msg)
    ELSE <<>>

\* Format of a StackMessage node with a default case that writes the short
\* text (C8 as amended fails with it).
withStack_Format_DefaultShort(w, verb, plus) ==
    IF verb = "v" /\ plus
    THEN (IF withMessage_Cause(w) # Nil
          THEN FprintfPlusV(withMessage_Cause(w)) \o <<globalOptions.StackSep>>
          ELSE <<>>)
         \o (IF w.msg # <<>> THEN w.msg \o <<globalOptions.StackSep>> ELSE <<>>)
         \o stack_Format(w.stack)
    ELSE IF verb = "q" THEN Quote(withMessage_Error(w))
    ELSE withMessage_Error(w)

withStack_Format(w, verb, plus) ==
    IF verb = "v" /\ plus
    THEN (IF withMessage_Cause(w) # Nil
          THEN FprintfPlusV(withMessage_Cause(w)) \o <<globalOptions.StackSep>>
          ELSE <<>>)
         \o (IF w.msg # <<>> THEN w.msg \o <<globalOptions.StackSep>> ELSE <<>>)
         \o stack_Format(w.stack)
    ELSE IF verb \in {"v", "s"} THEN withMessage_Error(w)
    ELSE IF verb = "q" THEN Quote(withMessage_Error(w))
    ELSE <<>>

\* withMessage.Format writing its own message before the text of its cause
\* (C15 fails with it).
withMessage_Format_OuterFirst(w, verb, plus) ==
    IF verb = "v" /\ plus
    THEN w.msg
         \o (IF withMessage_Cause(w) # Nil
             THEN <<globalOptions.StackSep>> \o FprintfPlusV(withMessage_Cause(w))
             ELSE <<>>)
    ELSE IF verb \in {"v", "s", "q"} THEN withMessage_Error(w)
    ELSE <<>>

withMessage_Format(w, verb, plus) ==
    IF verb = "v" /\ plus
    THEN (IF withMessage_Cause(w) # Nil
          THEN FprintfPlusV(withMessage_Cause(w)) \o <<globalOptions.StackSep>>
          ELSE <<>>)
         \o w.msg
    ELSE IF verb \in {"v", "s", "q"} THEN withMessage_Error(w)
    ELSE <<>>

withDetails_Format(w, verb, plus) ==
    IF verb = "v" /\ plus
    THEN FprintfPlusV(withDetails_Cause(w)) \o <<globalOptions.StackSep>>
    ELSE IF verb \in {"v", "s", "q"} THEN withDetails_Error(w)
    ELSE <<>>

Format(err, verb, plus) ==
    CASE heap[err].kind = "fundamental" -> fundamental_Format(heap[err], verb, plus)
      [] heap[err].kind = "withStack"   -> withStack_Format(heap[err], verb, plus)
      [] heap[err].kind = "withMessage" -> withMessage_Format(heap[err], verb, plus)
      [] OTHER                          -> withDetails_Format(heap[err], verb, plus)

----------------------------------------------------------------------------
\* Inputs

\* The error a client passes to a call: nil, or the error it holds (the
\* outermost node built so far; every inner node was the outermost one in an
\* earlier state).
ErrInputs == {Nil, Len(heap)}

\* The message given to the call that allocates the next node.
MsgInputs == {<<>>, <<"m" \o ToString(Len(heap) + 1)>>}

\* Format strings with their arguments.
FormatInputs ==
    { [format |-> <<>>, args |-> <<>>],
      [format |-> <<"%s">>, args |-> <<"m" \o ToString(Len(heap) + 1)>>] }

ExternalMsgs == {<<>>, <<"EOF">>}

\* The details given to WithDetails: none, or two values in an order.
DetailsInputs == {<<>>, <<"d2", "d1">>}

\* The verbs a node is formatted with: %s, %v, %+v, %q and the verb %d, which
\* no Format method has a case for.
VerbInputs ==
    { [verb |-> "s", plus |-> FALSE], [verb |-> "v", plus |-> FALSE],
      [verb |-> "v", plus |-> TRUE],  [verb |-> "q", plus |-> FALSE],
      [verb |-> "d", plus |-> FALSE] }

----------------------------------------------------------------------------
\* The API calls

Init ==
    /\ heap = <<>>
    /\ globalOptions = DefaultOptions
    /\ ret = [op |-> "init"]
    /\ setting = Idle

\* A constructor call: the heap it leaves and the value it returns.
Construct(op, err, r) ==
    /\ Len(r.heap) <= MaxNodes
    /\ heap' = r.heap
    /\ ret' = [op |-> op, err |-> err, val |-> r.val]
    /\ UNCHANGED <<globalOptions, setting>>

New ==
    /\ heap = <<>>
    /\ \E message \in MsgInputs : Construct("New", Nil, errorsApi_New(message))

Errorf ==
    /\ heap = <<>>
    /\ \E f \in FormatInputs :
          Construct("Errorf", Nil, errorsApi_Errorf(f.format, f.args))

External ==
    /\ heap = <<>>
    /\ \E msg \in ExternalMsgs : Construct("External", Nil, NewCodeError(msg))

WithStack ==
    \E err \in ErrInputs : Construct("WithStack", err, errorsApi_WithStack(err))

Wrap ==
    \E err \in ErrInputs, message \in MsgInputs :
        Construct("Wrap", err, errorsApi_Wrap(err, message))

Wrapf ==
    \E err \in ErrInputs, f \in FormatInputs :
        Construct("Wrapf", err, errorsApi_Wrapf(err, f.format, f.args))

WithMessage ==
    \E err \in ErrInputs, message \in MsgInputs :
        Construct("WithMessage", err, errorsApi_WithMessage(err, message))

WithMessagef ==
    \E err \in ErrInputs, f \in FormatInputs :
        Construct("WithMessagef", err, errorsApi_WithMessagef(err, f.format, f.args))

WithDetails ==
    \E err \in ErrInputs, details \in DetailsInputs :
        LET r == errorsApi_WithDetails(err, details) IN
        /\ Len(r.heap) <= MaxNodes
        /\ heap' = r.heap
        /\ ret' = [op |-> "WithDetails", err |-> err, val |-> r.val,
                   details |-> details]
        /\ UNCHANGED <<globalOptions, setting>>

Details ==
    \E err \in ErrInputs :
        /\ ret' = [op |-> "Details", err |-> err,
                   details |-> errorsApi_Details(err).details,
                   found |-> errorsApi_Details(err).found]
        /\ UNCHANGED <<heap, globalOptions, setting>>

CauseCall ==
    \E err \in ErrInputs :
        /\ ret' = [op |-> "Cause", err |-> err, val |-> Cause(err)]
        /\ UNCHANGED <<heap, globalOptions, setting>>

LinesCall ==
    \E err \in ErrInputs, stack \in BOOLEAN :
        /\ ret' = [op |-> "Lines", err |-> err, stack |-> stack,
                   lines |-> Lines(err, stack)]
        /\ UNCHANGED <<heap, globalOptions, setting>>

\* fmt.Sprintf("%<verb>", err) or fmt.Sprintf("%+<verb>", err) of a node.
FormatCall ==
    \E err \in ErrInputs, v \in VerbInputs :
        /\ IsNode(err)
        /\ ret' = [op |-> "Format", err |-> err, verb |-> v.verb, plus |-> v.plus,
                   text |-> Format(err, v.verb, v.plus)]
        /\ UNCHANGED <<heap, globalOptions, setting>>

SetOptions ==
    \E options \in OptionLists :
        /\ globalOptions' = ApplyOptions(globalOptions, options)
        /\ ret' = [op |-> "SetOptions"]
        /\ UNCHANGED <<heap, setting>>

Next ==
    \/ New
    \/ Errorf
    \/ External
    \/ WithStack
    \/ Wrap
    \/ Wrapf
    \/ WithMessage
    \/ WithMessagef
    \/ WithDetails
    \/ Details
    \/ CauseCall
    \/ LinesCall
    \/ FormatCall
    \/ SetOptions

Spec == Init /\ [][Next]_vars

\* The calls that build a value, made while the configuration is the default.
BuildUnderDefault ==
    /\ globalOptions = DefaultOptions
    /\ \/ New
       \/ Errorf
       \/ External
       \/ WithStack
       \/ Wrap
       \/ Wrapf
       \/ WithMessage
       \/ WithMessagef
       \/ WithDetails

\* Every value is built under the default configuration and rendered under
\* whatever configuration SetOptions has left since.
NextConfig ==
    \/ BuildUnderDefault
    \/ LinesCall
    \/ FormatCall
    \/ SetOptions

SpecConfig == Init /\ [][NextConfig]_vars

----------------------------------------------------------------------------
\* SetOptions running next to the renders of another goroutine.  The loop of
\* SetOptions takes no lock, so the other goroutine's calls fall between any
\* two of its iterations.  ret records the call that took the last step.

SetOptionsCall ==
    \E options \in OptionLists :
        /\ ~setting.active
        /\ setting' = [active |-> TRUE, start |-> globalOptions,
                       options |-> options, applied |-> 0]
        /\ ret' = [op |-> "SetOptions"]
        /\ UNCHANGED <<heap, globalOptions>>

SetOptionsStep ==
    /\ setting.active
    /\ setting.applied < Len(setting.options)
    /\ globalOptions' =
          SetOptions_Iteration(globalOptions, setting.options, setting.applied)
    /\ setting' = [setting EXCEPT !.applied = @ + 1]
    /\ ret' = [op |-> "SetOptions"]
    /\ UNCHANGED heap

SetOptionsReturn ==
    /\ setting.active
    /\ setting.applied = Len(setting.options)
    /\ setting' = Idle
    /\ ret' = [op |-> "SetOptions"]
    /\ UNCHANGED <<heap, globalOptions>>

NextConcurrent ==
    \/ New
    \/ Wrap
    \/ LinesCall
    \/ FormatCall
    \/ SetOptionsCall
    \/ SetOptionsStep
    \/ SetOptionsReturn

SpecConcurrent == Init /\ [][NextConcurrent]_vars

----------------------------------------------------------------------------
\* A client that keeps the slice it passed to WithDetails (as ds...) or the
\* slice Details returned, and assigns to an element of it.  Both slices share
\* their backing array with the details field of the node.

WriteInputs == {"w"}

\* ds[k] = v after e := WithDetails(err, ds...): ret is that call.
WriteArgument ==
    /\ ret.op = "WithDetails"
    /\ ret.val # Nil
    /\ \E k \in DOMAIN heap[ret.val].details, v \in WriteInputs :
          /\ heap' = [heap EXCEPT ![ret.val].details[k] = v]
          /\ ret' = [op |-> "WriteSlice", err |-> ret.val,
                     details |-> errorsApi_Details(ret.val).details]
    /\ UNCHANGED <<globalOptions, setting>>

\* ds[k] = v after ds, _ := Details(err): ret is that call.
WriteReturned ==
    /\ ret.op = "Details"
    /\ ret.found
    /\ \E k \in DOMAIN heap[ret.err].details, v \in WriteInputs :
          /\ heap' = [heap EXCEPT ![ret.err].details[k] = v]
          /\ ret' = [op |-> "WriteSlice", err |-> ret.err,
                     details |-> ret.details]
    /\ UNCHANGED <<globalOptions, setting>>

NextAlias ==
    \/ New
    \/ WithMessage
    \/ WithDetails
    \/ Details
    \/ WriteArgument
    \/ WriteReturned

SpecAlias == Init /\ [][NextAlias]_vars

----------------------------------------------------------------------------
\* Properties

WrapFamily ==
    {"WithStack", "Wrap", "Wrapf", "WithMessage", "WithMessagef", "WithDetails"}

Wrappers == {"withStack", "withMessage", "withDetails"}

\* C1: every wrap-family constructor called with a nil cause returns nil, and
\* no node of the heap was built around a nil cause.
C1_NilInNilOut ==
    /\ (ret.op \in WrapFamily /\ ret.err = Nil) => ret.val = Nil
    /\ \A i \in 1..Len(heap) : heap[i].kind \in Wrappers => heap[i].cause # Nil

C1_Witness ==
    /\ ret.op = "WithMessagef"
    /\ ret.err = Nil
    /\ ret.val = Nil
    /\ Len(heap) = 2

\* C2: Cause(err) is the first value on err's chain that is no causer (for a
\* chain built by the constructors: never nil unless err is nil), and Cause of
\* that value is the value itself.
C2_CauseIdempotent ==
    ret.op = "Cause" =>
        /\ Cause(ret.val) = ret.val
        /\ ret.val <= ret.err
        /\ (ret.val = Nil) <=> (ret.err = Nil)
        /\ ret.val # Nil => ~IsCauser(ret.val)
        /\ \A j \in (ret.val + 1)..ret.err : IsCauser(j)

C2_Witness ==
    /\ ret.op = "Cause"
    /\ ret.err = 3
    /\ ret.val = 1
    /\ heap[3].kind = "withDetails"
    /\ heap[2].kind = "withStack"

\* Whether the chain of e holds the library's own nodes only.
OnlyOwnNodes(e) == \A j \in 1..e : heap[j].kind # "external"

\* C3: the node a wrap-family constructor returns for a non-nil cause has that
\* cause as its next element under the generic unwrap and under its cause
\* accessor; on a chain of the library's own nodes the loop of Lines and the
\* loop of Cause visit the same values.
C3_UnwrapIsCause ==
    /\ (ret.op \in WrapFamily /\ ret.err # Nil) =>
          /\ ret.val # Nil
          /\ Unwrap(ret.val) = ret.err
          /\ IsCauser(ret.val)
          /\ CauseOf(ret.val) = ret.err
    /\ \A e \in 1..Len(heap) :
          OnlyOwnNodes(e) => LinesVisits(e) = CauseVisits(e)

C3_Witness ==
    /\ ret.op = "WithDetails"
    /\ ret.err = 2
    /\ ret.val = 3
    /\ OnlyOwnNodes(3)
    /\ LinesVisits(3) = <<3, 2, 1>>

\* C4: the short text of a Message or StackMessage node is its message and its
\* cause's short text joined by ": ", an empty segment omitted with the joiner.
C4_ShortTextJoin ==
    (ret.op = "Format" /\ ret.verb = "s"
        /\ heap[ret.err].kind \in {"withStack", "withMessage"}) =>
        LET m == heap[ret.err].msg
            c == Error(heap[ret.err].cause)
        IN  ret.text = IF m = <<>> THEN c
                      ELSE IF c = <<>> THEN m
                      ELSE m \o <<": ">> \o c

\* The message a node contributes to Lines(err, false).
OwnMessage(n) == IF n.kind = "withDetails" THEN <<>> ELSE n.msg

\* The own messages of the chain of e, outermost first.
ChainMessages(e) == [k \in 1..e |-> OwnMessage(heap[e + 1 - k])]

NonEmpty(t) == t # <<>>

\* C5: Lines(err, false) is the sequence of the non-empty own messages of the
\* chain, outermost first; it holds no empty entry, and Lines(nil, s) is empty.
C5_LinesNoStack ==
    /\ (ret.op = "Lines" /\ ~ret.stack) =>
          /\ ret.lines = SelectSeq(ChainMessages(ret.err), NonEmpty)
          /\ \A k \in DOMAIN ret.lines : ret.lines[k] # <<>>
    /\ (ret.op = "Lines" /\ ret.err = Nil) => ret.lines = <<>>

C5_Witness ==
    /\ ret.op = "Lines"
    /\ ~ret.stack
    /\ ret.err = 3
    /\ heap[3].kind = "withMessage"
    /\ heap[2].kind = "withStack"
    /\ heap[1].kind = "external"
    /\ Len(ret.lines) = 2

\* Whether node i captured a stack when it was built.
CapturedStack(i) == heap[i].kind \in {"fundamental", "withStack"}

\* The tokens stack blocks are made of.
IsStackToken(t) ==
    \/ t \in {"main", "main:0"}
    \/ \E i \in 1..Len(heap) : t \in {callers(i)[1].fn, callers(i)[1].loc}

\* The places in the entries of lines where the text block starts.
BlockPlaces(block, lines) ==
    { p \in UNION { {<<k, j>> : j \in 1..Len(lines[k])} : k \in DOMAIN lines } :
         /\ p[2] + Len(block) - 1 <= Len(lines[p[1]])
         /\ SubSeq(lines[p[1]], p[2], p[2] + Len(block) - 1) = block }

\* C6: no entry of Lines(err, false) holds stack text; Lines(err, true) holds
\* one stack block for each node of the chain that captured a stack, and no
\* other stack block.
C6_StackBlocks ==
    ret.op = "Lines" =>
        IF ~ret.stack
        THEN \A k \in DOMAIN ret.lines : \A j \in DOMAIN ret.lines[k] :
                ~IsStackToken(ret.lines[k][j])
        ELSE /\ \A i \in 1..ret.err :
                   Cardinality(BlockPlaces(stack_Format(callers(i)), ret.lines))
                       = IF CapturedStack(i) THEN 1 ELSE 0
             /\ Cardinality(BlockPlaces(<<"main">>, ret.lines))
                   = Cardinality({i \in 1..ret.err : CapturedStack(i)})

C6_Witness ==
    /\ ret.op = "Lines"
    /\ ret.stack
    /\ ret.err = 3
    /\ heap[3].kind = "withStack"
    /\ heap[2].kind = "withMessage"
    /\ heap[1].kind = "fundamental"
    /\ Cardinality(BlockPlaces(<<"main">>, ret.lines)) = 2

\* C7: under the default configuration the line form with stack of a
\* Fundamental or StackMessage node is its message, a newline and its stack
\* block (the stack block alone when the message is empty).
C7_LineFormNewline ==
    (ret.op = "Lines" /\ ret.stack /\ ret.err # Nil
        /\ globalOptions = DefaultOptions /\ CapturedStack(ret.err)) =>
        Head(ret.lines) =
            IF heap[ret.err].msg # <<>>
            THEN heap[ret.err].msg \o <<"\n">> \o stack_Format(heap[ret.err].stack)
            ELSE stack_Format(heap[ret.err].stack)

\* C8 as stated: a verb other than s, v and q renders the short text.
C8_UnsupportedVerbShort ==
    (ret.op = "Format" /\ ret.verb \notin {"s", "v", "q"}) =>
        ret.text = Error(ret.err)

\* C8, amended: a verb other than s, v and q writes nothing, for a node of any
\* of the four variants.
C8_UnsupportedVerbEmpty ==
    (ret.op = "Format" /\ ret.verb \notin {"s", "v", "q"}) => ret.text = <<>>

C8_Witness ==
    /\ ret.op = "Format"
    /\ ret.verb = "d"
    /\ heap[ret.err].kind = "withStack"
    /\ Error(ret.err) # <<>>
    /\ ret.text = <<>>

\* C9: for a node of every variant the quoted verb renders the short text in
\* quotes.
C9_QuotedShort ==
    (ret.op = "Format" /\ ret.verb = "q") => ret.text = Quote(Error(ret.err))

\* C10: Details(err) returns the details in the order given and found exactly
\* when err itself is the node WithDetails returned; for every other value it
\* returns not found, whatever the chain below err holds.
C10_DetailsExact ==
    /\ (ret.op = "WithDetails" /\ ret.val # Nil) =>
          errorsApi_Details(ret.val) = [details |-> ret.details, found |-> TRUE]
    /\ ret.op = "Details" =>
          /\ ret.found <=> (ret.err # Nil /\ heap[ret.err].kind = "withDetails")
          /\ ret.found => ret.details = heap[ret.err].details
          /\ ~ret.found => ret.details = NoDetails

C10_Witness ==
    /\ ret.op = "Details"
    /\ ret.err = 3
    /\ heap[3].kind = "withStack"
    /\ heap[2].kind = "withDetails"
    /\ heap[2].details = <<"d2", "d1">>
    /\ ~ret.found

\* The separators SetOptions can install.
SepValues == {o.sep : o \in OptionInputs}

\* The separators that are configured nowhere now.  The newline between the
\* frames of one stack block is no configured separator.
StaleSeps ==
    SepValues \ {globalOptions.FuncSep, globalOptions.StackSep,
                 globalOptions.MsgSep, "\n"}

IsFnToken(t) ==
    t = "main" \/ \E i \in 1..Len(heap) : t = callers(i)[1].fn

\* Whether text is written with the separators configured now.
CurrentSeps(text) ==
    \A k \in DOMAIN text :
        /\ text[k] \notin StaleSeps
        /\ IsFnToken(text[k]) =>
              (k < Len(text) /\ text[k + 1] = globalOptions.FuncSep)

\* C11: a node keeps no separator; the extended render and Lines(err, true)
\* of a node built under the default configuration are written with the
\* separators configured at the time of the render: FuncSep inside every
\* frame, MsgSep after the message of a stack-capturing root, StackSep after
\* the text of the cause, and no separator that is configured no longer.
C11_RenderTimeConfig ==
    /\ \A i \in 1..Len(heap) :
          /\ DOMAIN heap[i] = {"kind", "msg", "cause", "stack", "details"}
          /\ \A k \in DOMAIN heap[i].stack :
                DOMAIN heap[i].stack[k] = {"fn", "loc"}
    /\ (ret.op = "Format" /\ ret.verb = "v" /\ ret.plus) =>
          /\ CurrentSeps(ret.text)
          /\ (heap[ret.err].kind = "fundamental" /\ heap[ret.err].msg # <<>>) =>
                ret.text[Len(heap[ret.err].msg) + 1] = globalOptions.MsgSep
          /\ heap[ret.err].kind \in Wrappers =>
                ret.text[Len(FprintfPlusV(heap[ret.err].cause)) + 1]
                    = globalOptions.StackSep
    /\ (ret.op = "Lines" /\ ret.stack) =>
          \A k \in DOMAIN ret.lines : CurrentSeps(ret.lines[k])

C11_Witness ==
    /\ ret.op = "Format"
    /\ ret.verb = "v"
    /\ ret.plus
    /\ ret.err = 2
    /\ heap[1].kind = "fundamental"
    /\ heap[1].msg # <<>>
    /\ heap[2].kind = "withStack"
    /\ globalOptions = [FuncSep |-> " ", StackSep |-> " | ", MsgSep |-> "\n"]
    /\ ret.text[2] = "\n"
    /\ ret.text[4] = " "

\* The last n tokens of text.
Suffix(text, n) == SubSeq(text, Len(text) - n + 1, Len(text))

\* C12: once SetOptions has installed a message separator, the extended
\* render of every node that captured a stack and has a non-empty message
\* (Fundamental and StackMessage alike) ends with the message, that separator
\* and the node's stack block.
C12_MsgSepBeforeStack ==
    (ret.op = "Format" /\ ret.verb = "v" /\ ret.plus
        /\ CapturedStack(ret.err) /\ heap[ret.err].msg # <<>>
        /\ globalOptions.MsgSep # DefaultOptions.MsgSep) =>
        LET own == heap[ret.err].msg \o <<globalOptions.MsgSep>>
                       \o stack_Format(heap[ret.err].stack)
        IN  /\ Len(ret.text) >= Len(own)
            /\ Suffix(ret.text, Len(own)) = own

\* C15: the extended text of a node that has a cause is the complete extended
\* text of the cause, the configured StackSep, and then the node's own part:
\* for a Message node its message and nothing else, for a StackMessage node
\* its message and one separator (when the message is non-empty) and then its
\* stack block, for a Details node nothing.
C15_ExtendedChain ==
    (ret.op = "Format" /\ ret.verb = "v" /\ ret.plus
        /\ heap[ret.err].kind \in Wrappers) =>
        LET n     == heap[ret.err]
            pre   == FprintfPlusV(n.cause) \o <<globalOptions.StackSep>>
            own   == SubSeq(ret.text, Len(pre) + 1, Len(ret.text))
            block == stack_Format(n.stack)
        IN  /\ Len(ret.text) >= Len(pre)
            /\ SubSeq(ret.text, 1, Len(pre)) = pre
            /\ n.kind = "withMessage" => own = n.msg
            /\ n.kind = "withDetails" => own = <<>>
            /\ (n.kind = "withStack" /\ n.msg = <<>>) => own = block
            /\ (n.kind = "withStack" /\ n.msg # <<>>) =>
                  /\ Len(own) = Len(n.msg) + 1 + Len(block)
                  /\ SubSeq(own, 1, Len(n.msg)) = n.msg
                  /\ Suffix(own, Len(block)) = block

C15_Witness ==
    /\ ret.op = "Format"
    /\ ret.verb = "v"
    /\ ret.plus
    /\ ret.err = 3
    /\ heap[3].kind = "withMessage"
    /\ heap[3].msg # <<>>
    /\ heap[2].kind = "withStack"
    /\ heap[2].msg = <<>>
    /\ heap[1].kind = "fundamental"
    /\ Suffix(ret.text, 2) = <<globalOptions.StackSep>> \o heap[3].msg
    /\ ret.text[1] = "fn1"

\* C16: a Details node adds nothing to what its cause renders: its short
\* text and its extended text are those of the cause, and its line form is
\* empty with and without the stack flag.
C16_DetailsTransparent ==
    /\ (ret.op = "Format" /\ heap[ret.err].kind = "withDetails"
           /\ ret.verb \in {"s", "v"}) =>
          ret.text = IF ret.plus THEN FprintfPlusV(heap[ret.err].cause)
                     ELSE Error(heap[ret.err].cause)
    /\ \A i \in 1..Len(heap) : heap[i].kind = "withDetails" =>
          \A stack \in BOOLEAN : ErrorLine(i, stack) = <<>>

\* C13 as stated: a SetOptions call is atomic, so whatever runs next to it
\* finds the configuration with none or with all of the call's options
\* applied.
C13_SetOptionsAtomic ==
    setting.active =>
        globalOptions \in {setting.start,
                           ApplyOptions(setting.start, setting.options)}

\* C13, amended: a SetOptions call applies its options one at a time in the
\* order given; what runs next to it finds the configuration with the first
\* options of the call applied and the others not yet, and a render then is
\* written with exactly those separators.
C13_OptionByOption ==
    /\ setting.active =>
          /\ setting.applied \in 0..Len(setting.options)
          /\ globalOptions =
                ApplyOptions(setting.start,
                             SubSeq(setting.options, 1, setting.applied))
    /\ (setting.active /\ ret.op = "Format" /\ ret.verb = "v" /\ ret.plus) =>
          CurrentSeps(ret.text)

C13_Witness ==
    /\ setting.active
    /\ setting.start = DefaultOptions
    /\ setting.options = <<WithFuncSep(" "), WithStackSep(" | ")>>
    /\ setting.applied = 1
    /\ ret.op = "Format"
    /\ ret.verb = "v"
    /\ ret.plus
    /\ ret.err = 2
    /\ heap[2].kind = "withStack"
    /\ \E k \in DOMAIN ret.text : ret.text[k] = " "
    /\ \A k \in DOMAIN ret.text : ret.text[k] # " | "

\* C14: what Details(node) returns never changes: after the client has
\* written to the slice it passed to WithDetails or to the slice Details
\* returned, Details(node) still returns what it returned before the write.
C14_DetailsImmutable ==
    ret.op = "WriteSlice" =>
        errorsApi_Details(ret.err) = [details |-> ret.details, found |-> TRUE]

====
